---- MODULE Spec2Model ----
(***************************************************************************)
(* State-machine model of the authentication backend in src/app:          *)
(* the users / refresh_tokens tables (models.py), the token and password  *)
(* helpers (auth.py) and the HTTP handlers (auth_routes.py).               *)
(*                                                                         *)
(* Requests run concurrently on a fixed set of workers.  A handler is one  *)
(* action per database round trip it makes (a query, or a flush+commit):   *)
(* the store is shared, every other local of the handler lives in the      *)
(* worker's slot req[w].  A handler that talks to the store once is one    *)
(* action.                                                                 *)
(***************************************************************************)
EXTENDS Integers, FiniteSets, Sequences, TLC

\* ------------------------------------------------------------------ bounds
Workers == {"w1", "w2"}
\* EmailStr values, and usernames (any string of 3..50 characters, so a
\* username may be the very string of somebody's email, schemas.py:9-15).
Emails == {"a@x.io", "b@x.io"}
Usernames == {"bob", "a@x.io"}
\* A password is the sequence of its bytes (a str of 8 characters or more,
\* schemas.py:13-15, with no upper limit); these two stand for passwords
\* shorter than 72 bytes.
Passwords == {<<1, 1>>, <<1, 2>>}
\* Accounts are registered with the first password; the second one is a wrong
\* password at login and the new password of a change-password.
RegisterPasswords == {<<1, 1>>}
\* bcrypt salts drawn per call of get_password_hash.
Salts == {"s1"}
\* Requests the service accepts in a run.
MaxRequests == 4
\* The clock runs 0..MaxTime.
MaxTime == 2
\* Access tokens the clients keep hold of.
MaxAccess == 1

\* ----------------------------------------------------------- configuration
\* Settings are read from the environment (config.py); the deployment
\* modelled here configures both lifetimes in units of one clock tick.
ACCESS_TOKEN_EXPIRE_MINUTES == 1
REFRESH_TOKEN_EXPIRE_DAYS == 2

\* Python's None / SQL NULL where the value is a number or a timestamp.
None == -1
\* Python's None where the value is an object (a row, a dict).
NoneObj == [none |-> TRUE]

VARIABLES
    users,           \* table users: set of rows
    refresh_tokens,  \* table refresh_tokens: set of rows
    next_user_id,    \* users.id serial
    next_token,      \* next value of secrets.token_urlsafe(32) (never repeats)
    now,             \* datetime.now(timezone.utc)
    access_tokens,   \* signed JWTs the clients hold
    req,             \* per worker: the request it runs and its locals
    resp,            \* the response sent last
    revoked_first,   \* history: <<token string, time>> of each first revocation
    served,          \* requests accepted so far
    open_sessions,   \* workers whose request holds a store session (get_db)
    issued,          \* history: <<held access token, id of the user it was issued to>>
    authenticated,   \* history: <<refresh token string, password its login verified>>
    call             \* a call of a helper of auth.py on its own: inputs, result

vars == <<users, refresh_tokens, next_user_id, next_token, now, access_tokens,
          req, resp, revoked_first, served, open_sessions, issued,
          authenticated, call>>

\* The state of the service, as opposed to a helper called on its own.
service_vars == <<users, refresh_tokens, next_user_id, next_token, now,
                  access_tokens, req, resp, revoked_first, served,
                  open_sessions, issued, authenticated>>

\* ------------------------------------------------------------ auth.py: pure
\* bcrypt digests the first 72 bytes of the password and ignores the rest.
BCRYPT_MAX_BYTES == 72

\* passlib bcrypt: the hash string "$2b$<salt><digest>" encodes scheme, salt
\* and digest; a string is the tuple of its parts, "" is << >>.
bcrypt(password, salt) ==
    LET secret == IF Len(password) > BCRYPT_MAX_BYTES
                  THEN SubSeq(password, 1, BCRYPT_MAX_BYTES)
                  ELSE password
    IN <<"$2b$", salt, <<salt, secret>>>>

get_password_hash(password, salt) == bcrypt(password, salt)

\* CryptContext.identify: the hash string parses as a hash of the one
\* configured scheme.
identify(hashed_password) ==
    /\ Len(hashed_password) = 3
    /\ hashed_password[1] = "$2b$"

\* CryptContext.verify(secret, hash): a hash string that no configured scheme
\* identifies raises UnknownHashError (a ValueError); otherwise the digest is
\* recomputed with the salt the hash string carries and compared.
pwd_context_verify(secret, hash) ==
    IF ~identify(hash) THEN "raises"
    ELSE IF hash = bcrypt(secret, hash[2]) THEN "True" ELSE "False"

\* The value verify_password returns; it has no try/except, so where
\* pwd_context.verify raises, verify_password raises (verify_password_raises).
verify_password(plain_password, hashed_password) ==
    pwd_context_verify(plain_password, hashed_password) = "True"

verify_password_raises(plain_password, hashed_password) ==
    pwd_context_verify(plain_password, hashed_password) = "raises"

\* data is a dict (a function on its keys); expires_delta = None when omitted,
\* and `if expires_delta:` is Python truthiness.  to_encode = data.copy();
\* to_encode.update({exp, iat, type}); the payload is what is signed.
create_access_token(data, expires_delta, t) ==
    LET expire == IF expires_delta # None /\ expires_delta # 0
                  THEN t + expires_delta
                  ELSE t + ACCESS_TOKEN_EXPIRE_MINUTES
        update == [exp |-> expire, iat |-> t, type |-> "access"]
    IN [k \in DOMAIN data \cup DOMAIN update |->
            IF k \in DOMAIN update THEN update[k] ELSE data[k]]

\* jose.jwt.decode: signature, then `if exp < now: raise ExpiredSignatureError`.
decode_access_token(token, signed, t) ==
    IF token \in signed /\ ~(token.exp < t) THEN token ELSE NoneObj

\* ------------------------------------------------- auth.py: refresh tokens
NewRefreshRow(user_id, token, t) ==
    [user_id |-> user_id, token |-> token,
     expires_at |-> t + REFRESH_TOKEN_EXPIRE_DAYS,
     created_at |-> t, is_revoked |-> FALSE, revoked_at |-> None]

\* Mutants of verify_refresh_token: the is_revoked filter left out; the expiry
\* compared with >=.
verify_refresh_token_unrevoked(token, rows, t) ==
    LET found == {r \in rows : r.token = token /\ r.expires_at > t}
    IN IF found # {} THEN (CHOOSE r \in found : TRUE).user_id ELSE None

verify_refresh_token_ge(token, rows, t) ==
    LET found == {r \in rows : /\ r.token = token
                               /\ r.is_revoked = FALSE
                               /\ r.expires_at >= t}
    IN IF found # {} THEN (CHOOSE r \in found : TRUE).user_id ELSE None

verify_refresh_token(token, rows, t) ==
    LET found == {r \in rows : /\ r.token = token
                               /\ r.is_revoked = FALSE
                               /\ r.expires_at > t}
    IN IF found # {} THEN (CHOOSE r \in found : TRUE).user_id ELSE None

\* The for loop of revoke_all_user_tokens over the selected rows.
RECURSIVE RevokeLoop(_, _, _, _)
RevokeLoop(todo, rows, count, t) ==
    IF todo = {} THEN [rows |-> rows, count |-> count]
    ELSE LET token == CHOOSE r \in todo : TRUE
             marked == [token EXCEPT !.is_revoked = TRUE, !.revoked_at = t]
         IN RevokeLoop(todo \ {token}, (rows \ {token}) \cup {marked},
                       count + 1, t)

\* Mutants of revoke_all_user_tokens: every row of the user counted; the
\* user_id filter left out; revoked_at stamped but is_revoked not set.
revoke_all_user_tokens_countall(user_id, rows, t) ==
    LET tokens == {r \in rows : r.user_id = user_id /\ r.is_revoked = FALSE}
    IN [rows |-> RevokeLoop(tokens, rows, 0, t).rows,
        count |-> Cardinality({r \in rows : r.user_id = user_id})]

revoke_all_user_tokens_everyone(user_id, rows, t) ==
    LET tokens == {r \in rows : r.is_revoked = FALSE}
    IN RevokeLoop(tokens, rows, 0, t)

revoke_all_user_tokens_stamponly(user_id, rows, t) ==
    LET tokens == {r \in rows : r.user_id = user_id /\ r.is_revoked = FALSE}
    IN [rows |-> (rows \ tokens) \cup
                 {[r EXCEPT !.revoked_at = t] : r \in tokens},
        count |-> Cardinality(tokens)]

revoke_all_user_tokens(user_id, rows, t) ==
    LET tokens == {r \in rows : r.user_id = user_id /\ r.is_revoked = FALSE}
    IN RevokeLoop(tokens, rows, 0, t)

\* Mutant of revoke_refresh_token: an already revoked row is left alone and
\* reported as not found.
revoke_refresh_token_once(token, rows, t) ==
    LET found == {r \in rows : r.token = token /\ r.is_revoked = FALSE}
    IN IF found # {}
       THEN LET db_token == CHOOSE r \in found : TRUE
            IN [rows |-> (rows \ {db_token}) \cup
                         {[db_token EXCEPT !.is_revoked = TRUE, !.revoked_at = t]},
                ok |-> TRUE]
       ELSE [rows |-> rows, ok |-> FALSE]

\* Mutant of revoke_refresh_token: is_revoked set, revoked_at left NULL.
revoke_refresh_token_unstamped(token, rows, t) ==
    LET found == {r \in rows : r.token = token}
    IN IF found # {}
       THEN LET db_token == CHOOSE r \in found : TRUE
            IN [rows |-> (rows \ {db_token}) \cup
                         {[db_token EXCEPT !.is_revoked = TRUE]},
                ok |-> TRUE]
       ELSE [rows |-> rows, ok |-> FALSE]

\* Returns the new table and the bool the function returns.
revoke_refresh_token(token, rows, t) ==
    LET found == {r \in rows : r.token = token}
    IN IF found # {}
       THEN LET db_token == CHOOSE r \in found : TRUE
            IN [rows |-> (rows \ {db_token}) \cup
                         {[db_token EXCEPT !.is_revoked = TRUE, !.revoked_at = t]},
                ok |-> TRUE]
       ELSE [rows |-> rows, ok |-> FALSE]

\* ------------------------------------------------------------- the store
NewUserRow(id, email, username, hashed_password) ==
    [id |-> id, email |-> email, username |-> username,
     hashed_password |-> hashed_password, is_active |-> TRUE]

\* Mutant of UniqueUserOk: username not declared unique.
UniqueUserOk_emailonly(email, username) ==
    \A x \in users : x.email # email

\* UNIQUE(email), UNIQUE(username) on users: the insert is accepted or raises
\* IntegrityError.
UniqueUserOk(email, username) ==
    \A x \in users : x.email # email /\ x.username # username

\* Mutant of CascadeDelete: the foreign key declared without ondelete.
CascadeDelete_none(user_id, rows) == rows

\* ON DELETE CASCADE of refresh_tokens.user_id.
CascadeDelete(user_id, rows) == {r \in rows : r.user_id # user_id}

\* FOREIGN KEY refresh_tokens.user_id -> users.id.
ForeignKeyOk(user_id) == \E x \in users : x.id = user_id

\* History of revocations: the rows of `rows` that are revoked and not yet in
\* `hist` enter it with the time they were revoked at.
Revocations(hist, rows) ==
    hist \cup {<<r.token, r.revoked_at>> :
                 r \in {x \in rows : /\ x.is_revoked
                                      /\ \A h \in hist : h[1] # x.token}}

\* Token strings that were ever marked revoked.
RevokedEver == {h[1] : h \in revoked_first}

\* ------------------------------------------------------------ worker slots
\* A slot holds the handler's locals while it runs (op, pc, email, username,
\* password, uid: the id of the user it resolved, arg: the refresh token string
\* of the request) and, once pc = "done", the response: status, detail and the
\* body (access: access_token, refresh_token, count: the number in the
\* logout-all message).  A response keeps uid, arg and, for a registration,
\* email and username, to tell which request it answers.
Blank ==
    [op |-> "none", pc |-> "done", email |-> "", username |-> "",
     password |-> << >>, uid |-> None, arg |-> None, access |-> NoneObj,
     status |-> 0, detail |-> "", count |-> None, refresh_token |-> None]

Free(w) == req[w].pc = "done"

\* Worker w takes a new request.
Accept(w) == Free(w) /\ served < MaxRequests

Response(op, status, detail) ==
    [Blank EXCEPT !.op = op, !.status = status, !.detail = detail]

\* Mutant of get_db: db.close() after the yield, without try/finally, so that
\* it runs only when the handler returned.
get_db_nofinally(held, w, slot) ==
    IF slot.pc = "done" /\ slot.status < 400 THEN held \ {w} ELSE held \cup {w}

\* database.get_db: db = sessionLocal() when the request starts; the handler
\* runs at the yield; finally: db.close(), whether the handler returned or
\* raised (an HTTPException, or a store error answered by main.py:69-78).
get_db(held, w, slot) ==
    IF slot.pc = "done" THEN held \ {w} ELSE held \cup {w}

\* The handler on worker w moves on to `slot`: its next database round trip,
\* or (pc = "done") the response, which frees the worker.  resp is the
\* response the step sends, Blank when it sends none.
Step(w, slot) ==
    /\ req' = [req EXCEPT ![w] = IF slot.pc = "done" THEN Blank ELSE slot]
    /\ resp' = IF slot.pc = "done" THEN slot ELSE Blank
    /\ served' = IF Free(w) THEN served + 1 ELSE served
    /\ open_sessions' = get_db(open_sessions, w, slot)
    /\ UNCHANGED call

\* A client keeps the access token of a 200 response while it has room.
Keep(held, token) ==
    IF Cardinality(held \cup {token}) <= MaxAccess THEN held \cup {token} ELSE held

\* The 200 response of a login or refresh hands `token`, made for the user
\* with id user_id, to the client.
Hold(token, user_id) ==
    /\ access_tokens' = Keep(access_tokens, token)
    /\ issued' = IF token \in Keep(access_tokens, token)
                 THEN issued \cup {<<token, user_id>>} ELSE issued

\* No helper is called on its own.
NoCall == [fn |-> "none", done |-> FALSE]

\* The service after start-up: main.py:14 creates the empty tables.
InitService ==
    /\ users = {}
    /\ refresh_tokens = {}
    /\ next_user_id = 1
    /\ next_token = 1
    /\ now = 0
    /\ access_tokens = {}
    /\ req = [w \in Workers |-> Blank]
    /\ resp = Blank
    /\ revoked_first = {}
    /\ served = 0
    /\ open_sessions = {}
    /\ issued = {}
    /\ authenticated = {}

Init == InitService /\ call = NoCall

Tick ==
    /\ now < MaxTime
    /\ now' = now + 1
    /\ resp' = Blank
    /\ UNCHANGED <<users, refresh_tokens, next_user_id, next_token, authenticated,
                   access_tokens, issued, req, revoked_first, served, open_sessions,
                   call>>

\* users.is_active (models.py:15) is written by no handler: an operator sets
\* it in the store, at any moment.
SetActive(id, is_active) ==
    /\ \E x \in users :
         /\ x.id = id /\ x.is_active # is_active
         /\ users' = (users \ {x}) \cup {[x EXCEPT !.is_active = is_active]}
    /\ resp' = Blank
    /\ UNCHANGED <<refresh_tokens, next_user_id, next_token, authenticated, now,
                   access_tokens, issued, req, revoked_first, served, open_sessions,
                   call>>

\* ------------------------------------------------------ POST /auth/register
\* Mutant of ConflictDetail: the comparison inverted.
ConflictDetail_inverted(existing_user, email) ==
    IF existing_user.email # email
    THEN "Email already registered"
    ELSE "Username already taken"

\* The detail of the 400 raised for the row the existence query returned.
ConflictDetail(existing_user, email) ==
    IF existing_user.email = email
    THEN "Email already registered"
    ELSE "Username already taken"

\* The existence query; .first() without ORDER BY returns any matching row.
RegisterCheck(w, email, username, password) ==
    /\ Accept(w)
    /\ LET existing == {x \in users : x.email = email \/ x.username = username}
       IN IF existing # {}
          THEN \E existing_user \in existing :
                 Step(w, [Response("register", 400,
                                   ConflictDetail(existing_user, email))
                              EXCEPT !.email = email, !.username = username])
          ELSE Step(w, [Blank EXCEPT !.op = "register", !.pc = "register_insert",
                                  !.email = email, !.username = username,
                                  !.password = password])
    /\ UNCHANGED <<users, refresh_tokens, next_user_id, next_token, authenticated, now,
                   access_tokens, issued, revoked_first>>

\* db.add; db.commit: an IntegrityError is a SQLAlchemyError, answered by
\* main.sqlalchemy_exception_handler with 500.
RegisterInsert(w) ==
    /\ req[w].pc = "register_insert"
    /\ \E salt \in Salts :
        IF UniqueUserOk(req[w].email, req[w].username)
        THEN /\ users' = users \cup
                   {NewUserRow(next_user_id, req[w].email, req[w].username,
                               get_password_hash(req[w].password, salt))}
             /\ next_user_id' = next_user_id + 1
             /\ Step(w, [Response("register", 201, "") EXCEPT
                              !.uid = next_user_id, !.email = req[w].email,
                              !.username = req[w].username])
        ELSE /\ Step(w, [Response("register", 500, "Database error occurred")
                            EXCEPT !.email = req[w].email,
                                   !.username = req[w].username])
             /\ UNCHANGED <<users, next_user_id>>
    /\ UNCHANGED <<refresh_tokens, next_token, authenticated, now, access_tokens, issued,
                   revoked_first>>

\* ------------------------------------------------ auth.py: authentication
\* .first() on (username == x) | (email == x) returns any matching row; the
\* set holds every value the call can return.
authenticate_user(username, password, rows) ==
    LET found == {x \in rows : x.username = username \/ x.email = username}
    IN IF found = {} THEN {NoneObj}
       ELSE {IF verify_password(password, user.hashed_password)
             THEN user ELSE NoneObj : user \in found}

\* Mutant of get_current_user: an access token issued before the user's last
\* revocation of a refresh token is refused.
get_current_user_denylist(token, signed, rows, t) ==
    LET payload == decode_access_token(token, signed, t)
    IN IF payload = NoneObj THEN NoneObj
       ELSE LET found == {x \in rows : x.username = payload.sub}
            IN IF found = {} THEN NoneObj
               ELSE LET user == CHOOSE x \in found : TRUE
                    IN IF \E r \in refresh_tokens :
                             /\ r.user_id = user.id /\ r.is_revoked
                             /\ payload.iat <= r.revoked_at
                       THEN NoneObj ELSE user

get_current_user(token, signed, rows, t) ==
    LET payload == decode_access_token(token, signed, t)
    IN IF payload = NoneObj THEN NoneObj
       ELSE LET found == {x \in rows : x.username = payload.sub}
            IN IF found = {} THEN NoneObj ELSE CHOOSE x \in found : TRUE

\* The dependency chain get_current_user -> get_current_active_user of the
\* protected endpoints: the HTTP status it ends the request with (0: none).
AuthStatus(current_user) ==
    IF current_user = NoneObj THEN 401
    ELSE IF ~current_user.is_active THEN 400
    ELSE 0

AuthDetail(current_user) ==
    IF current_user = NoneObj THEN "Could not validate credentials"
    ELSE "Inactive user"

\* A bearer token that is no JWT signed with SECRET_KEY (jwt.decode raises
\* JWTError), and the request without an Authorization header.
Forged ==
    [sub |-> "bob", exp |-> MaxTime + ACCESS_TOKEN_EXPIRE_MINUTES, iat |-> 0,
     type |-> "access", key |-> "not SECRET_KEY"]

NoToken == NoneObj

\* What a client can send to a protected endpoint.
Bearer == access_tokens \cup {Forged, NoToken}

\* The response of a protected endpoint to a request it turns away before
\* the handler body runs: oauth2_scheme answers the missing header, the
\* dependencies get_current_user / get_current_active_user the rest.
Unauthenticated(op, token, current_user) ==
    IF token = NoToken THEN Response(op, 401, "Not authenticated")
    ELSE Response(op, AuthStatus(current_user), AuthDetail(current_user))

\* ---------------------------------------------------- POST /auth/login/json
\* Mutant of LoginJson: remember_me not looked at, a refresh token always
\* created.
LoginJson_always(w, username, password, remember_me) ==
    /\ Accept(w)
    /\ \E user \in authenticate_user(username, password, users) :
        IF user = NoneObj
        THEN Step(w, Response("login_json", 401, "Incorrect username or password"))
        ELSE IF ~user.is_active
        THEN Step(w, Response("login_json", 403,
                         "Account is inactive. Please contact support."))
        ELSE Step(w, [Blank EXCEPT
                        !.op = "login_json", !.pc = "login_issue",
                        !.uid = user.id, !.password = password,
                        !.access = create_access_token([sub |-> user.username],
                                                       None, now)])
    /\ UNCHANGED <<users, refresh_tokens, next_user_id, next_token, authenticated, now,
                   access_tokens, issued, revoked_first>>

LoginJson(w, username, password, remember_me) ==
    /\ Accept(w)
    /\ \E user \in authenticate_user(username, password, users) :
        IF user = NoneObj
        THEN /\ Step(w, Response("login_json", 401, "Incorrect username or password"))
             /\ UNCHANGED <<access_tokens, issued>>
        ELSE IF ~user.is_active
        THEN /\ Step(w, Response("login_json", 403,
                            "Account is inactive. Please contact support."))
             /\ UNCHANGED <<access_tokens, issued>>
        ELSE LET access_token ==
                   create_access_token([sub |-> user.username], None, now)
             IN IF remember_me
                THEN /\ Step(w, [Blank EXCEPT !.op = "login_json",
                                         !.pc = "login_issue",
                                         !.uid = user.id,
                                         !.password = password,
                                         !.access = access_token])
                     /\ UNCHANGED <<access_tokens, issued>>
                ELSE /\ Step(w, [Response("login_json", 200, "") EXCEPT
                                !.uid = user.id, !.access = access_token])
                     /\ Hold(access_token, user.id)
    /\ UNCHANGED <<users, refresh_tokens, next_user_id, next_token, authenticated, now,
                   revoked_first>>

\* create_refresh_token: db.add; db.commit.  The insert of a row whose user is
\* gone violates the foreign key (IntegrityError -> 500).
LoginIssue(w) ==
    /\ req[w].pc = "login_issue"
    /\ IF ForeignKeyOk(req[w].uid)
       THEN /\ refresh_tokens' = refresh_tokens \cup
                  {NewRefreshRow(req[w].uid, next_token, now)}
            /\ next_token' = next_token + 1
            /\ authenticated' = authenticated \cup
                   {<<next_token, req[w].password>>}
            /\ Step(w, [Response("login_json", 200, "") EXCEPT
                       !.uid = req[w].uid, !.access = req[w].access,
                       !.refresh_token = next_token])
            /\ Hold(req[w].access, req[w].uid)
       ELSE /\ Step(w, Response("login_json", 500, "Database error occurred"))
            /\ UNCHANGED <<refresh_tokens, next_token, authenticated, access_tokens, issued>>
    /\ UNCHANGED <<users, next_user_id, now, revoked_first>>

\* --------------------------------------------------------- POST /auth/login
\* Mutant of LoginOauth2: an identifier nobody has is answered 404.
LoginOauth2_enumerating(w, username, password) ==
    /\ Accept(w)
    /\ \E user \in authenticate_user(username, password, users) :
        IF \A x \in users : x.username # username /\ x.email # username
        THEN /\ Step(w, Response("login_oauth2", 404, "User not found"))
             /\ UNCHANGED <<access_tokens, issued>>
        ELSE IF user = NoneObj
        THEN /\ Step(w, Response("login_oauth2", 401, "Incorrect username or password"))
             /\ UNCHANGED <<access_tokens, issued>>
        ELSE IF ~user.is_active
        THEN /\ Step(w, Response("login_oauth2", 403,
                            "Account is inactive. Please contact support."))
             /\ UNCHANGED <<access_tokens, issued>>
        ELSE LET access_token ==
                   create_access_token([sub |-> user.username], None, now)
             IN /\ Step(w, [Response("login_oauth2", 200, "") EXCEPT
                           !.uid = user.id, !.access = access_token])
                /\ Hold(access_token, user.id)
    /\ UNCHANGED <<users, refresh_tokens, next_user_id, next_token, authenticated, now,
                   revoked_first>>

LoginOauth2(w, username, password) ==
    /\ Accept(w)
    /\ \E user \in authenticate_user(username, password, users) :
        IF user = NoneObj
        THEN /\ Step(w, Response("login_oauth2", 401, "Incorrect username or password"))
             /\ UNCHANGED <<access_tokens, issued>>
        ELSE IF ~user.is_active
        THEN /\ Step(w, Response("login_oauth2", 403,
                            "Account is inactive. Please contact support."))
             /\ UNCHANGED <<access_tokens, issued>>
        ELSE LET access_token ==
                   create_access_token([sub |-> user.username], None, now)
             IN /\ Step(w, [Response("login_oauth2", 200, "") EXCEPT
                           !.uid = user.id, !.access = access_token])
                /\ Hold(access_token, user.id)
    /\ UNCHANGED <<users, refresh_tokens, next_user_id, next_token, authenticated, now,
                   revoked_first>>

\* ------------------------------------------------------- POST /auth/refresh
\* Token strings a client can present: every string issued so far, and one
\* that was never issued.
Presentable == 0 .. (next_token - 1)

\* `if not user_id` also rejects 0; ids start at 1.
RefreshVerify(w, token) ==
    /\ Accept(w)
    /\ LET user_id == verify_refresh_token(token, refresh_tokens, now)
       IN IF user_id = None \/ user_id = 0
          THEN Step(w, [Response("refresh", 401, "Invalid or expired refresh token")
                       EXCEPT !.arg = token])
          ELSE Step(w, [Blank EXCEPT !.op = "refresh", !.pc = "refresh_user",
                                !.uid = user_id, !.arg = token])
    /\ UNCHANGED <<users, refresh_tokens, next_user_id, next_token, authenticated, now,
                   access_tokens, issued, revoked_first>>

\* Mutant of RefreshUser: the refresh token is rotated, the one presented is
\* revoked when the access token is issued.
RefreshUser_rotating(w) ==
    /\ req[w].pc = "refresh_user"
    /\ LET found == {x \in users : x.id = req[w].uid}
       IN IF found = {}
          THEN /\ Step(w, Response("refresh", 404, "User not found"))
               /\ UNCHANGED <<access_tokens, issued, refresh_tokens, revoked_first>>
          ELSE LET user == CHOOSE x \in found : TRUE
               IN IF ~user.is_active
                  THEN /\ Step(w, Response("refresh", 403, "Account is inactive"))
                       /\ UNCHANGED <<access_tokens, issued, refresh_tokens,
                                      revoked_first>>
                  ELSE LET access_token ==
                               create_access_token([sub |-> user.username],
                                                   None, now)
                           r == revoke_refresh_token(req[w].arg,
                                                     refresh_tokens, now)
                       IN /\ Step(w, [Response("refresh", 200, "") EXCEPT
                                     !.uid = user.id, !.access = access_token,
                                     !.arg = req[w].arg])
                          /\ Hold(access_token, user.id)
                          /\ refresh_tokens' = r.rows
                          /\ revoked_first' = Revocations(revoked_first, r.rows)
    /\ UNCHANGED <<users, next_user_id, next_token, authenticated, now>>

\* Mutant of RefreshUser: is_active not looked at.
RefreshUser_noactive(w) ==
    /\ req[w].pc = "refresh_user"
    /\ LET found == {x \in users : x.id = req[w].uid}
       IN IF found = {}
          THEN /\ Step(w, Response("refresh", 404, "User not found"))
               /\ UNCHANGED <<access_tokens, issued>>
          ELSE LET user == CHOOSE x \in found : TRUE
                   access_token ==
                       create_access_token([sub |-> user.username], None, now)
               IN /\ Step(w, [Response("refresh", 200, "") EXCEPT
                             !.uid = user.id, !.access = access_token,
                             !.arg = req[w].arg])
                  /\ Hold(access_token, user.id)
    /\ UNCHANGED <<users, refresh_tokens, next_user_id, next_token, authenticated, now,
                   revoked_first>>

RefreshUser(w) ==
    /\ req[w].pc = "refresh_user"
    /\ LET found == {x \in users : x.id = req[w].uid}
       IN IF found = {}
          THEN /\ Step(w, Response("refresh", 404, "User not found"))
               /\ UNCHANGED <<access_tokens, issued>>
          ELSE LET user == CHOOSE x \in found : TRUE
               IN IF ~user.is_active
                  THEN /\ Step(w, Response("refresh", 403, "Account is inactive"))
                       /\ UNCHANGED <<access_tokens, issued>>
                  ELSE LET access_token ==
                               create_access_token([sub |-> user.username],
                                                   None, now)
                       IN /\ Step(w, [Response("refresh", 200, "") EXCEPT
                                     !.uid = user.id, !.access = access_token,
                                     !.arg = req[w].arg])
                          /\ Hold(access_token, user.id)
    /\ UNCHANGED <<users, refresh_tokens, next_user_id, next_token, authenticated, now,
                   revoked_first>>

\* -------------------------------------------------------- POST /auth/logout
Logout(w, token) ==
    /\ Accept(w)
    /\ LET r == revoke_refresh_token(token, refresh_tokens, now)
       IN /\ refresh_tokens' = r.rows
          /\ revoked_first' = Revocations(revoked_first, r.rows)
          /\ Step(w, IF r.ok
                THEN [Response("logout", 200, "Successfully logged out")
                          EXCEPT !.arg = token]
                ELSE [Response("logout", 404, "Refresh token not found")
                          EXCEPT !.arg = token])
    /\ UNCHANGED <<users, next_user_id, next_token, authenticated, now, access_tokens, issued>>

\* ---------------------------------------------------- POST /auth/logout-all
LogoutAllAuth(w, token) ==
    /\ Accept(w)
    /\ LET current_user == get_current_user(token, access_tokens, users, now)
       IN IF AuthStatus(current_user) # 0
          THEN Step(w, Unauthenticated("logout_all", token, current_user))
          ELSE Step(w, [Blank EXCEPT !.op = "logout_all", !.pc = "logout_all_revoke",
                                !.uid = current_user.id])
    /\ UNCHANGED <<users, refresh_tokens, next_user_id, next_token, authenticated, now,
                   access_tokens, issued, revoked_first>>

LogoutAllRevoke(w) ==
    /\ req[w].pc = "logout_all_revoke"
    /\ LET r == revoke_all_user_tokens(req[w].uid, refresh_tokens, now)
       IN /\ refresh_tokens' = r.rows
          /\ revoked_first' = Revocations(revoked_first, r.rows)
          /\ Step(w, [Response("logout_all", 200, "Successfully logged out") EXCEPT
                     !.uid = req[w].uid, !.count = r.count])
    /\ UNCHANGED <<users, next_user_id, next_token, authenticated, now, access_tokens, issued>>

\* ------------------------------------------------------------ GET /auth/me
Me(w, token) ==
    /\ Accept(w)
    /\ LET current_user == get_current_user(token, access_tokens, users, now)
       IN IF AuthStatus(current_user) # 0
          THEN Step(w, Unauthenticated("me", token, current_user))
          ELSE Step(w, [Response("me", 200, "") EXCEPT !.uid = current_user.id])
    /\ UNCHANGED <<users, refresh_tokens, next_user_id, next_token, authenticated, now,
                   access_tokens, issued, revoked_first>>

\* ------------------------------------------------- PUT /auth/change-password
\* Mutant of ChangePasswordAuth: the user's refresh tokens are revoked before
\* the current password is checked.
ChangePasswordAuth_revoking(w, token, current_password, new_password) ==
    /\ Accept(w)
    /\ LET current_user == get_current_user(token, access_tokens, users, now)
       IN IF AuthStatus(current_user) # 0
          THEN /\ Step(w, Unauthenticated("change_password", token, current_user))
               /\ UNCHANGED <<refresh_tokens, revoked_first>>
          ELSE LET r == revoke_all_user_tokens(current_user.id, refresh_tokens,
                                               now)
               IN /\ refresh_tokens' = r.rows
                  /\ revoked_first' = Revocations(revoked_first, r.rows)
                  /\ IF ~verify_password(current_password,
                                         current_user.hashed_password)
                     THEN Step(w, [Response("change_password", 400,
                                       "Current password is incorrect")
                                  EXCEPT !.uid = current_user.id])
                     ELSE Step(w, [Blank EXCEPT !.op = "change_password",
                                           !.pc = "change_password_commit",
                                           !.uid = current_user.id,
                                           !.password = new_password])
    /\ UNCHANGED <<users, next_user_id, next_token, authenticated, now,
                   access_tokens, issued>>

ChangePasswordAuth(w, token, current_password, new_password) ==
    /\ Accept(w)
    /\ LET current_user == get_current_user(token, access_tokens, users, now)
       IN IF AuthStatus(current_user) # 0
          THEN Step(w, Unauthenticated("change_password", token, current_user))
          ELSE IF ~verify_password(current_password,
                                   current_user.hashed_password)
          THEN Step(w, [Response("change_password", 400,
                            "Current password is incorrect")
                       EXCEPT !.uid = current_user.id])
          ELSE Step(w, [Blank EXCEPT !.op = "change_password",
                                !.pc = "change_password_commit",
                                !.uid = current_user.id,
                                !.password = new_password])
    /\ UNCHANGED <<users, refresh_tokens, next_user_id, next_token, authenticated, now,
                   access_tokens, issued, revoked_first>>

\* current_user.hashed_password = ...; db.commit(): UPDATE users ... WHERE id.
\* No row matched (the user was deleted meanwhile): StaleDataError -> 500.
ChangePasswordCommit(w) ==
    /\ req[w].pc = "change_password_commit"
    /\ LET found == {x \in users : x.id = req[w].uid}
       IN IF found = {}
          THEN /\ Step(w, Response("change_password", 500, "Database error occurred"))
               /\ UNCHANGED users
          ELSE \E salt \in Salts :
                 LET user == CHOOSE x \in found : TRUE
                 IN /\ users' = (users \ {user}) \cup
                          {[user EXCEPT !.hashed_password =
                                get_password_hash(req[w].password, salt)]}
                    /\ Step(w, [req[w] EXCEPT !.pc = "change_password_revoke",
                                         !.password = << >>])
    /\ UNCHANGED <<refresh_tokens, next_user_id, next_token, authenticated, now,
                   access_tokens, issued, revoked_first>>

\* auth.revoke_all_user_tokens(current_user.id, db): the instance expired at
\* the commit, so .id reloads the row (gone: ObjectDeletedError -> 500).
ChangePasswordRevoke(w) ==
    /\ req[w].pc = "change_password_revoke"
    /\ IF ~\E x \in users : x.id = req[w].uid
       THEN /\ Step(w, Response("change_password", 500, "Database error occurred"))
            /\ UNCHANGED <<refresh_tokens, revoked_first>>
       ELSE LET r == revoke_all_user_tokens(req[w].uid, refresh_tokens, now)
            IN /\ refresh_tokens' = r.rows
               /\ revoked_first' = Revocations(revoked_first, r.rows)
               /\ Step(w, [Response("change_password", 200,
                               "Password changed successfully. Please login again.")
                          EXCEPT !.uid = req[w].uid])
    /\ UNCHANGED <<users, next_user_id, next_token, authenticated, now, access_tokens, issued>>

\* ----------------------------------------------- DELETE /auth/delete-account
DeleteAccountAuth(w, token) ==
    /\ Accept(w)
    /\ LET current_user == get_current_user(token, access_tokens, users, now)
       IN IF AuthStatus(current_user) # 0
          THEN Step(w, Unauthenticated("delete_account", token, current_user))
          ELSE Step(w, [Blank EXCEPT !.op = "delete_account",
                                !.pc = "delete_account_revoke",
                                !.uid = current_user.id])
    /\ UNCHANGED <<users, refresh_tokens, next_user_id, next_token, authenticated, now,
                   access_tokens, issued, revoked_first>>

DeleteAccountRevoke(w) ==
    /\ req[w].pc = "delete_account_revoke"
    /\ LET r == revoke_all_user_tokens(req[w].uid, refresh_tokens, now)
       IN /\ refresh_tokens' = r.rows
          /\ revoked_first' = Revocations(revoked_first, r.rows)
          /\ Step(w, [req[w] EXCEPT !.pc = "delete_account_delete"])
    /\ UNCHANGED <<users, next_user_id, next_token, authenticated, now, access_tokens, issued>>

\* db.delete(current_user); db.commit(): the expired instance is reloaded for
\* the DELETE (gone: ObjectDeletedError -> 500); the store cascades.
DeleteAccountDelete(w) ==
    /\ req[w].pc = "delete_account_delete"
    /\ IF ~\E x \in users : x.id = req[w].uid
       THEN /\ Step(w, Response("delete_account", 500, "Database error occurred"))
            /\ UNCHANGED <<users, refresh_tokens>>
       ELSE /\ users' = {x \in users : x.id # req[w].uid}
            /\ refresh_tokens' = CascadeDelete(req[w].uid, refresh_tokens)
            /\ Step(w, [Response("delete_account", 200,
                            "Account deleted successfully")
                       EXCEPT !.uid = req[w].uid])
    /\ UNCHANGED <<next_user_id, next_token, authenticated, now, access_tokens, issued,
                   revoked_first>>

Identifiers == Emails \cup Usernames

Next ==
    \/ Tick
    \/ \E id \in 1 .. (next_user_id - 1), b \in BOOLEAN : SetActive(id, b)
    \/ \E w \in Workers, e \in Emails, u \in Usernames,
          p \in RegisterPasswords :
         RegisterCheck(w, e, u, p)
    \/ \E w \in Workers : RegisterInsert(w)
    \/ \E w \in Workers, i \in Identifiers, p \in Passwords, m \in BOOLEAN :
         LoginJson(w, i, p, m)
    \/ \E w \in Workers : LoginIssue(w)
    \/ \E w \in Workers, i \in Identifiers, p \in Passwords :
         LoginOauth2(w, i, p)
    \/ \E w \in Workers, t \in Presentable : RefreshVerify(w, t)
    \/ \E w \in Workers : RefreshUser(w)
    \/ \E w \in Workers, t \in Presentable : Logout(w, t)
    \/ \E w \in Workers, a \in Bearer : LogoutAllAuth(w, a)
    \/ \E w \in Workers : LogoutAllRevoke(w)
    \/ \E w \in Workers, a \in Bearer : Me(w, a)
    \/ \E w \in Workers, a \in Bearer, p \in Passwords, q \in Passwords :
         ChangePasswordAuth(w, a, p, q)
    \/ \E w \in Workers : ChangePasswordCommit(w)
    \/ \E w \in Workers : ChangePasswordRevoke(w)
    \/ \E w \in Workers, a \in Bearer : DeleteAccountAuth(w, a)
    \/ \E w \in Workers : DeleteAccountRevoke(w)
    \/ \E w \in Workers : DeleteAccountDelete(w)

Spec == Init /\ [][Next]_vars

\* ------------------------------------------- the helpers of auth.py, called
\* on their own with arguments the handlers never pass them.
\* A password of exactly 72 bytes, and the byte strings verify_password and
\* get_password_hash are called with.
Bytes72 == [i \in 1 .. BCRYPT_MAX_BYTES |-> 1]

PlainPasswords == Passwords \cup {Bytes72, Append(Bytes72, 1), Append(Bytes72, 2)}

\* Strings that are no bcrypt hash: "", a plaintext, a cut-off hash.
MalformedHashes == {<< >>, <<"plain">>, <<"$2b$", "s1">>}

HashStrings ==
    {get_password_hash(p, salt) : p \in PlainPasswords, salt \in Salts}
        \cup MalformedHashes

\* The data argument of create_access_token: what the handlers pass, a dict
\* that has the keys the function sets, a dict with a further claim.
ClaimsDicts ==
    {[sub |-> "bob"],
     [sub |-> "bob", exp |-> 99, iat |-> 98, type |-> "refresh"],
     [sub |-> "a@x.io", role |-> "admin"]}

\* expires_delta: omitted (None), 0, and the positive lifetimes.
Lifetimes == {None} \cup (0 .. MaxTime)

\* Tokens decode_access_token is called with: issued by create_access_token
\* at some time with some positive lifetime.
IssuedTokens ==
    {create_access_token([sub |-> "bob"], d, t) :
        d \in Lifetimes \ {0}, t \in 0 .. MaxTime}

PureInit ==
    /\ InitService
    /\ \/ \E p \in PlainPasswords, h \in HashStrings :
             call = [fn |-> "verify_password", plain |-> p, hashed |-> h,
                     done |-> FALSE, out |-> "pending"]
       \/ \E d \in ClaimsDicts, e \in Lifetimes, t \in 0 .. MaxTime :
             call = [fn |-> "create_access_token", data |-> d,
                     expires_delta |-> e, t |-> t,
                     done |-> FALSE, out |-> NoneObj]
       \/ \E a \in IssuedTokens, signed \in BOOLEAN, t \in 0 .. (2 * MaxTime) :
             call = [fn |-> "decode_access_token", token |-> a,
                     signed |-> signed, t |-> t,
                     done |-> FALSE, out |-> NoneObj]

CallVerifyPassword ==
    /\ call.fn = "verify_password" /\ ~call.done
    /\ call' = [call EXCEPT
                   !.done = TRUE,
                   !.out = IF verify_password_raises(call.plain, call.hashed)
                           THEN "raises"
                           ELSE IF verify_password(call.plain, call.hashed)
                           THEN "True" ELSE "False"]
    /\ UNCHANGED service_vars

CallCreateAccessToken ==
    /\ call.fn = "create_access_token" /\ ~call.done
    /\ call' = [call EXCEPT
                   !.done = TRUE,
                   !.out = create_access_token(call.data, call.expires_delta,
                                               call.t)]
    /\ UNCHANGED service_vars

CallDecodeAccessToken ==
    /\ call.fn = "decode_access_token" /\ ~call.done
    /\ call' = [call EXCEPT
                   !.done = TRUE,
                   !.out = decode_access_token(
                               call.token,
                               IF call.signed THEN {call.token} ELSE {},
                               call.t)]
    /\ UNCHANGED service_vars

PureNext ==
    \/ CallVerifyPassword
    \/ CallCreateAccessToken
    \/ CallDecodeAccessToken

PureSpec == PureInit /\ [][PureNext]_vars

\* ===================================================================== claims
Rows(s) == {r \in refresh_tokens : r.token = s}

\* A refresh token string is valid: found, not revoked, not expired.
Valid(s) == \E r \in Rows(s) : ~r.is_revoked /\ now < r.expires_at

Owner(s) == (CHOOSE r \in Rows(s) : TRUE).user_id

Active(uid, rows) == {r \in rows : r.user_id = uid /\ ~r.is_revoked}

UserIds(rows) == {x.id : x \in rows}

\* Every row that is revoked is in the revocation history.
HistoryComplete ==
    \A r \in refresh_tokens : r.is_revoked => r.token \in RevokedEver

\* Token strings that were ever revoked do not verify.
RevokedNeverVerify ==
    \A s \in RevokedEver : verify_refresh_token(s, refresh_tokens, now) = None

\* -------------------------------------------------------------------- C1
\* C1: revocation is terminal.  Once a refresh-token row is revoked, in every
\* later state verify_refresh_token of its token string is None, also while
\* now < expires_at (and after the row is gone), and the row, while it exists,
\* has is_revoked = true: nothing sets it back to false.
C1_RevocationTerminal ==
    /\ HistoryComplete
    /\ RevokedNeverVerify
    /\ \A s \in RevokedEver : \A r \in Rows(s) : r.is_revoked

\* A refresh presenting a revoked, unexpired token was answered 401.
C1_Witness ==
    /\ resp.op = "refresh" /\ resp.status = 401
    /\ \E r \in Rows(resp.arg) : r.is_revoked /\ now < r.expires_at

\* -------------------------------------------------------------------- C2
C2_Function ==
    \A s \in 0 .. next_token :
        verify_refresh_token(s, refresh_tokens, now) =
            IF Valid(s) THEN Owner(s) ELSE None

C2_Step ==
    \A w \in Workers, t \in Presentable :
        RefreshVerify(w, t) =>
            IF Valid(t)
            THEN /\ req'[w].pc = "refresh_user"
                 /\ req'[w].uid = Owner(t)
                 /\ resp' = Blank
            ELSE resp' = [Response("refresh", 401,
                                   "Invalid or expired refresh token")
                              EXCEPT !.arg = t]

\* C2: verify_refresh_token(token) is the owner's id exactly when a row with
\* that token string exists, is not revoked and has expires_at > now
\* (expires_at = now is invalid); otherwise it is None, and /auth/refresh
\* answers every such request with one and the same 401.
C2_VerifyIffValid == []C2_Function /\ [][C2_Step]_vars

\* A refresh presenting an unrevoked token at exactly its expires_at got 401.
C2_Witness ==
    /\ resp.op = "refresh" /\ resp.status = 401
    /\ \E r \in Rows(resp.arg) : ~r.is_revoked /\ r.expires_at = now

\* -------------------------------------------------------------------- C3
C3_Function ==
    \A uid \in 1 .. next_user_id :
        LET res == revoke_all_user_tokens(uid, refresh_tokens, now)
        IN /\ res.count = Cardinality(Active(uid, refresh_tokens))
           /\ \A r \in res.rows : r.user_id = uid =>
                  verify_refresh_token(r.token, res.rows, now) = None

\* C3: revoke_all_user_tokens(user_id) returns the number of that user's rows
\* that were not revoked right before the call, and right after it no refresh
\* token of that user verifies (so after a logout-all that answered 200).
C3_RevokeAllCount ==
    /\ C3_Function
    /\ (resp.op = "logout_all" /\ resp.status = 200) =>
           /\ \A r \in refresh_tokens : r.user_id = resp.uid =>
                  verify_refresh_token(r.token, refresh_tokens, now) = None
           /\ resp.count <= Cardinality({r \in refresh_tokens :
                                 r.user_id = resp.uid /\ r.revoked_at = now})

\* A user holds one active and one revoked token, and revoke_all_user_tokens
\* returns 1 for it.
C3_Witness ==
    \E uid \in UserIds(users) :
        /\ Cardinality(Active(uid, refresh_tokens)) = 1
        /\ Cardinality({r \in refresh_tokens : r.user_id = uid}) = 2
        /\ revoke_all_user_tokens(uid, refresh_tokens, now).count = 1

\* -------------------------------------------------------------------- C4
\* `after` differs from `before` only in is_revoked / revoked_at of rows of
\* uid that were not revoked.
C4_Frame(uid, before, after) ==
    /\ \A r \in before : (r.user_id # uid \/ r.is_revoked) => r \in after
    /\ \A r \in after : \E q \in before :
           /\ q.token = r.token /\ q.user_id = r.user_id
           /\ q.expires_at = r.expires_at /\ q.created_at = r.created_at
    /\ Cardinality(after) = Cardinality(before)

\* C4: revoke_all_user_tokens(user_id) changes only the rows of that user that
\* were not revoked: the user's revoked rows keep their revoked_at and the
\* rows of every other user are left as they are, so a logout-all of one user
\* invalidates no refresh token of another.
C4_RevokeAllFrame ==
    \A uid \in 1 .. next_user_id :
        C4_Frame(uid, refresh_tokens,
                 revoke_all_user_tokens(uid, refresh_tokens, now).rows)

\* Two users hold a valid token each: revoke_all_user_tokens of one of them has
\* a row to revoke and a valid row of the other user to leave alone.
C4_Witness ==
    \E uid \in UserIds(users) :
        /\ Active(uid, refresh_tokens) # {}
        /\ \E r \in refresh_tokens : r.user_id # uid /\ Valid(r.token)
        /\ revoke_all_user_tokens(uid, refresh_tokens, now).count >= 1

\* -------------------------------------------------------------------- C5
C5_Effect(t, before, after, ok) ==
    IF Rows(t) # {}
    THEN /\ ok
         /\ after = (before \ Rows(t)) \cup
                {[r EXCEPT !.is_revoked = TRUE, !.revoked_at = now] : r \in Rows(t)}
    ELSE ~ok /\ after = before

\* C5: revoke_refresh_token(token) returns true whenever a row with the token
\* string exists, revoked already or not, and each time sets is_revoked and
\* overwrites revoked_at with the current time; without a matching row it
\* returns false and changes nothing, and /auth/logout answers 404 (200
\* otherwise).
C5_RevokeOne ==
    /\ \A t \in 0 .. next_token :
           LET res == revoke_refresh_token(t, refresh_tokens, now)
           IN C5_Effect(t, refresh_tokens, res.rows, res.ok)
    /\ resp.op = "logout" =>
           /\ resp.status \in {200, 404}
           /\ resp.status = 404 <=> Rows(resp.arg) = {}
           /\ \A r \in Rows(resp.arg) : r.is_revoked /\ r.revoked_at = now

\* A logout of an already revoked token answered 200 and stamped it again.
C5_Witness ==
    /\ resp.op = "logout" /\ resp.status = 200
    /\ \E r \in Rows(resp.arg) : \E h \in revoked_first :
           h[1] = r.token /\ h[2] < r.revoked_at /\ r.revoked_at = now

\* -------------------------------------------------------------------- C6
\* C6: when a change-password of user U answers success, every refresh token
\* issued to U before is revoked, and from then on none of them verifies.
C6_PasswordChangeRevokes ==
    /\ (resp.op = "change_password" /\ resp.status = 200) =>
           \A r \in refresh_tokens : r.user_id = resp.uid =>
               /\ r.is_revoked
               /\ verify_refresh_token(r.token, refresh_tokens, now) = None
    /\ HistoryComplete
    /\ RevokedNeverVerify

\* A change-password answered 200 while the user held an unexpired token.
C6_Witness ==
    /\ resp.op = "change_password" /\ resp.status = 200
    /\ \E r \in refresh_tokens : r.user_id = resp.uid /\ now < r.expires_at

\* -------------------------------------------------------------------- C7
C7_State ==
    /\ \A r \in refresh_tokens : r.user_id \in UserIds(users)
    /\ UserIds(users) \subseteq 1 .. (next_user_id - 1)
    /\ (resp.op = "delete_account" /\ resp.status = 200) =>
           /\ resp.uid \notin UserIds(users)
           /\ \A r \in refresh_tokens : r.user_id # resp.uid

C7_Step ==
    \* a user id that is gone stays gone
    /\ next_user_id' >= next_user_id
    /\ UserIds(users') \subseteq UserIds(users) \cup {next_user_id}
    \* rows go only with their user, in delete-account
    /\ LET gone == {r \in refresh_tokens :
                      \A q \in refresh_tokens' : q.token # r.token}
       IN gone # {} =>
            \E w \in Workers :
                /\ DeleteAccountDelete(w)
                /\ resp'.status = 200
                /\ \A r \in gone : r.user_id = req[w].uid
    \* a lookup that finds no row
    /\ \A w \in Workers, t \in Presentable :
           /\ (Logout(w, t) /\ Rows(t) = {}) => resp'.status = 404
           /\ (RefreshVerify(w, t) /\ Rows(t) = {}) => resp'.status = 401

\* C7: deleting a user deletes its refresh tokens.  Once delete-account of U
\* has completed no row with user_id = U exists, then or later, so a lookup of
\* one of U's former token strings finds no row (logout 404, refresh 401);
\* rows are deleted by no other operation.
C7_DeleteCascades == []C7_State /\ [][C7_Step]_vars

\* A logout with a token string that was issued found no row.
C7_Witness ==
    /\ resp.op = "logout" /\ resp.status = 404
    /\ resp.arg >= 1 /\ resp.arg < next_token

\* -------------------------------------------------------------------- C8
EmailTaken == Response("register", 400, "Email already registered")

UsernameTaken == Response("register", 400, "Username already taken")

Echo(r, email, username) == [r EXCEPT !.email = email, !.username = username]

C8_OriginalStep ==
    \A w \in Workers, e \in Emails, u \in Usernames, p \in RegisterPasswords :
        RegisterCheck(w, e, u, p) =>
            \A x \in users :
                /\ (x.email = e /\ x.username # u) =>
                       resp' = Echo(EmailTaken, e, u) /\ users' = users
                /\ (x.username = u /\ x.email # e) =>
                       resp' = Echo(UsernameTaken, e, u) /\ users' = users

\* C8 as stated: with a registered user X in the store, a registration with
\* X's email and another username is rejected with the 400 naming the email,
\* one with X's username and another email with the 400 naming the username,
\* and no user row is created.
C8_Original == [][C8_OriginalStep]_vars

C8_AmendedStep ==
    \A w \in Workers, e \in Emails, u \in Usernames, p \in RegisterPasswords :
        RegisterCheck(w, e, u, p) =>
            LET byEmail == {x \in users : x.email = e}
                byName == {x \in users : x.username = u}
            IN (byEmail \cup byName # {}) =>
                 /\ users' = users /\ next_user_id' = next_user_id
                 /\ req'[w] = Blank
                 /\ resp' \in {Echo(EmailTaken, e, u), Echo(UsernameTaken, e, u)}
                 /\ byName \subseteq byEmail => resp' = Echo(EmailTaken, e, u)
                 /\ byEmail = {} => resp' = Echo(UsernameTaken, e, u)

\* C8 amended: a registration whose email or username is taken is rejected
\* with a 400 and creates no row.  The 400 names the email when the email is
\* X's and the username is held by nobody else, and the username when the
\* username is taken and the email is not; when the email is X's and the
\* username is the one of another user Y, it names either field.
C8_RegisterConflict == [][C8_AmendedStep]_vars

\* A registration with X's email and Y's username was told the username is
\* taken.
C8_Witness ==
    /\ resp.op = "register" /\ resp.status = 400
    /\ resp.detail = "Username already taken"
    /\ \E x \in users : x.email = resp.email /\ x.username # resp.username

\* -------------------------------------------------------------------- C9
C9_Step ==
    \A w \in Workers :
        (RegisterInsert(w) /\ ~UniqueUserOk(req[w].email, req[w].username)) =>
            /\ resp'.status = 400
            /\ resp'.detail \in {"Email already registered",
                                 "Username already taken"}

\* C9: when of two concurrent registrations with the same email both pass the
\* existence check, the store rejects the second insert and that request is
\* answered with the "already exists" 400, not with a 500.
C9_RaceAnswered400 == [][C9_Step]_vars

\* ------------------------------------------------------------------- C10
\* C10: no two user rows share an email, no two share a username, and every
\* row has a non-empty password hash, whatever the interleaving of requests.
C10_UserInvariant ==
    /\ \A x \in users, y \in users :
           x # y => x.email # y.email /\ x.username # y.username /\ x.id # y.id
    /\ \A x \in users : x.hashed_password # << >>

\* Two users are registered and the store has just rejected the insert of a
\* registration that raced with another.
C10_Witness ==
    /\ Cardinality(users) = 2
    /\ resp.op = "register" /\ resp.status = 500

\* ------------------------------------------------------------------- C11
\* Rows of the next state whose token string no row has now.
Created ==
    {r \in refresh_tokens' : \A q \in refresh_tokens : q.token # r.token}

C11_Step ==
    /\ Created # {} =>
           \E w \in Workers :
               /\ LoginIssue(w)
               /\ req[w].op = "login_json"
               /\ resp'.op = "login_json" /\ resp'.status = 200
               /\ Created = {NewRefreshRow(resp'.uid, resp'.refresh_token, now)}
    \* a login answered in its first step: no row, no refresh token
    /\ (served' = served + 1 /\ resp'.op \in {"login_json", "login_oauth2"}) =>
           /\ refresh_tokens' = refresh_tokens
           /\ resp'.refresh_token = None
    \* create_refresh_token is reached by login_json with remember_me alone,
    \* and a successful login_json with remember_me always goes there
    /\ \A w \in Workers :
         (Free(w) /\ (req'[w].pc = "login_issue" \/ resp'.status = 200)) =>
           \A i \in Identifiers, p \in Passwords :
               /\ LoginJson(w, i, p, FALSE) => req'[w] = Blank
               /\ LoginOauth2(w, i, p) => req'[w] = Blank
               /\ LoginJson(w, i, p, TRUE) =>
                      resp'.status # 200 /\ req'[w].pc = "login_issue"

\* C11: a refresh-token row is created only by a successful /auth/login/json
\* with remember_me = true, whose response returns the token of the new row;
\* a login with remember_me = false and every form login return no refresh
\* token and leave the refresh-token rows as they are.
C11_RowsOnlyByRememberMe == [][C11_Step]_vars

\* A login with remember_me answered 200 with the token of a row it created.
C11_Witness ==
    /\ resp.op = "login_json" /\ resp.status = 200
    /\ resp.refresh_token # None
    /\ \E r \in Rows(resp.refresh_token) :
           r.user_id = resp.uid /\ r.created_at = now /\ ~r.is_revoked

\* ------------------------------------------------------------------- C12
\* The details of the answers that report an inactive account.
InactiveDetails ==
    {"Inactive user", "Account is inactive",
     "Account is inactive. Please contact support."}

\* C12: every operation that checks activity answers 403 when the user it
\* resolved has is_active = false: the two logins, refresh, and the endpoints
\* behind an access token (logout-all, me, change-password, delete-account).
C12_InactiveIs403 ==
    /\ \A a \in access_tokens :
           LET current_user == get_current_user(a, access_tokens, users, now)
           IN (current_user # NoneObj /\ ~current_user.is_active) =>
                  AuthStatus(current_user) = 403
    /\ resp.detail \in InactiveDetails => resp.status = 403

\* ------------------------------------------------------------------- C13
\* The one 401 of a login.
BadCredentials(op) == Response(op, 401, "Incorrect username or password")

\* The user rows an identifier matches.
Matching(identifier) ==
    {x \in users : x.username = identifier \/ x.email = identifier}

\* The next state issues nothing: no access token, no refresh token, no row.
NothingIssued ==
    /\ access_tokens' = access_tokens
    /\ refresh_tokens' = refresh_tokens
    /\ resp'.access = NoneObj /\ resp'.refresh_token = None

\* The step is a login of worker w with identifier i and password p.
IsLogin(w, i, p) ==
    \/ resp'.op = "login_oauth2" /\ LoginOauth2(w, i, p)
    \/ resp'.op # "login_oauth2" /\ \E m \in BOOLEAN : LoginJson(w, i, p, m)

\* The answer of the step is the one a login gives for the row x.
AnswersFor(w, x, p) ==
    IF ~verify_password(p, x.hashed_password)
    THEN resp' \in {BadCredentials("login_json"), BadCredentials("login_oauth2")}
    ELSE IF ~x.is_active
    THEN resp'.status = 403
    ELSE (resp'.status = 200 /\ resp'.uid = x.id)
             \/ (req'[w].pc = "login_issue" /\ req'[w].uid = x.id)

\* Unknown identifier and wrong password: the same 401, nothing issued.
C13_SameAnswer(w, i, p) ==
    /\ (\A x \in Matching(i) : ~verify_password(p, x.hashed_password)) =>
           /\ resp' \in {BadCredentials("login_json"),
                          BadCredentials("login_oauth2")}
           /\ req'[w] = Blank
    /\ resp'.status \in {401, 403} => NothingIssued /\ req'[w] = Blank

C13_OriginalStep ==
    \A w \in Workers :
      (Free(w) /\ (resp'.op \in {"login_json", "login_oauth2"}
                      \/ req'[w].pc = "login_issue")) =>
        \A i \in Identifiers, p \in Passwords :
            IsLogin(w, i, p) =>
                /\ C13_SameAnswer(w, i, p)
                /\ (\E x \in Matching(i) :
                        verify_password(p, x.hashed_password) /\ ~x.is_active)
                       => resp'.status = 403 /\ NothingIssued

C13_AmendedStep ==
    \A w \in Workers :
      (Free(w) /\ (resp'.op \in {"login_json", "login_oauth2"}
                      \/ req'[w].pc = "login_issue")) =>
        \A i \in Identifiers, p \in Passwords :
            IsLogin(w, i, p) =>
                /\ C13_SameAnswer(w, i, p)
                /\ Matching(i) # {} => \E x \in Matching(i) : AnswersFor(w, x, p)
                /\ (/\ Matching(i) # {}
                    /\ \A x \in Matching(i) :
                         verify_password(p, x.hashed_password) /\ ~x.is_active)
                       => resp'.status = 403

C13_Inactive403Reached ==
    /\ resp.op \in {"login_json", "login_oauth2"} /\ resp.status = 403
    /\ \E x \in users : ~x.is_active

\* ------------------------------------------------------------------- C14
C14_Step ==
    \* the handler goes on to the user lookup only with a valid token, for
    \* the user that owns it
    /\ \A w \in Workers :
           (req'[w].pc = "refresh_user" /\ req[w].pc # "refresh_user") =>
               /\ Free(w)
               /\ Valid(req'[w].arg)
               /\ req'[w].uid = Owner(req'[w].arg)
               /\ resp' = Blank /\ access_tokens' = access_tokens
    \* a token that is not valid: 401, nothing issued
    /\ (resp'.op = "refresh" /\ resp'.status = 401) =>
           ~Valid(resp'.arg) /\ NothingIssued
    \* the user lookup: 404, 403, or the access token of that user
    /\ \A w \in Workers :
           (req[w].pc = "refresh_user" /\ req'[w] = Blank) =>
               LET found == {x \in users : x.id = req[w].uid}
               IN /\ resp'.op = "refresh"
                  /\ found = {} => resp'.status = 404 /\ NothingIssued
                  /\ \A x \in found :
                       IF ~x.is_active
                       THEN resp'.status = 403 /\ NothingIssued
                       ELSE /\ resp'.status = 200
                            /\ resp'.access =
                                   [sub |-> x.username, iat |-> now,
                                    exp |-> now + ACCESS_TOKEN_EXPIRE_MINUTES,
                                    type |-> "access"]
                            /\ resp'.refresh_token = None
                            /\ refresh_tokens' = refresh_tokens
    \* no other answer of refresh
    /\ resp'.op = "refresh" =>
           /\ resp'.status \in {200, 401, 403, 404}
           /\ resp'.status # 401 =>
                  \E w \in Workers : req[w].pc = "refresh_user" /\ req'[w] = Blank
           /\ resp'.access # NoneObj <=> resp'.status = 200

\* C14: /auth/refresh issues an access token only if the refresh token
\* presented verified (found, not revoked, not expired), the row of the user
\* that owns it exists and that user is active; the token it issues has the
\* owner's username as subject.  Otherwise it issues none: 401 for a token
\* that does not verify, 404 for a missing user, 403 for an inactive one.
C14_RefreshIssues == [][C14_Step]_vars

\* A refresh answered 200 with an access token for the owner of the refresh
\* token.
C14_Witness ==
    /\ resp.op = "refresh" /\ resp.status = 200
    /\ \E x \in users :
           /\ x.id = resp.uid /\ x.is_active
           /\ resp.access.sub = x.username
           /\ \E r \in Rows(resp.arg) : r.user_id = x.id

\* ------------------------------------------------------------------- C15
\* The step is the revoking query of logout, logout-all, change-password or
\* delete-account.
RevokingStep ==
    \/ resp'.op = "logout" /\ served' = served + 1
    \/ \E w \in Workers :
          /\ req[w].pc \in {"logout_all_revoke", "change_password_revoke",
                             "delete_account_revoke"}
          /\ req'[w] # req[w]

C15_Step ==
    /\ \A r \in refresh_tokens :
           \/ r \in refresh_tokens'
           \* deleted with its user
           \/ \A q \in refresh_tokens' : q.token # r.token
           \* flipped to revoked, or stamped again
           \/ /\ [r EXCEPT !.is_revoked = TRUE, !.revoked_at = now]
                     \in refresh_tokens'
              /\ RevokingStep
    \* refresh, login, me, register and the clock leave every row as it is
    /\ (\/ resp'.op \in {"refresh", "login_json", "login_oauth2", "me",
                           "register"}
        \/ \E w \in Workers : /\ req'[w] # req[w]
                              /\ req'[w].pc \in {"refresh_user", "login_issue"}
        \/ now' # now) =>
           refresh_tokens \subseteq refresh_tokens'

\* C15: a refresh-token row is changed only by revoking it (logout,
\* logout-all, change-password, delete-account).  /auth/refresh, login,
\* /auth/me and the passing of expires_at leave is_revoked, revoked_at and
\* expires_at of every row as they are, so that a refresh token that was
\* exchanged still verifies, until it is revoked or expires.
C15_RowsOnlyRevoked ==
    /\ [][C15_Step]_vars
    /\ [](\A r \in refresh_tokens :
             /\ r.expires_at = r.created_at + REFRESH_TOKEN_EXPIRE_DAYS
             /\ (~r.is_revoked /\ now < r.expires_at) =>
                    verify_refresh_token(r.token, refresh_tokens, now) = r.user_id)

\* A refresh token was exchanged for an access token, still verifies after
\* the clock moved on, and is being exchanged once more.
C15_Witness ==
    /\ resp.op = "refresh" /\ resp.status = 200
    /\ \E r \in Rows(resp.arg) :
           /\ r.created_at < now
           /\ verify_refresh_token(r.token, refresh_tokens, now) = r.user_id
    /\ \E w \in Workers : req[w].pc = "refresh_user" /\ req[w].arg = resp.arg

\* ------------------------------------------------------------------- C16
\* C16: an access token issued with a lifetime of T minutes verifies at the
\* time it is issued and fails verification at every clock value T minutes or
\* more after that, exactly T minutes included: decode_access_token returns
\* None and the protected endpoints answer 401.
C16_ExpiredAtTTL ==
    \A a \in access_tokens :
        /\ now = a.iat => decode_access_token(a, access_tokens, now) = a
        /\ now >= a.iat + ACCESS_TOKEN_EXPIRE_MINUTES =>
               /\ decode_access_token(a, access_tokens, now) = NoneObj
               /\ AuthStatus(get_current_user(a, access_tokens, users, now))
                      = 401

\* ------------------------------------------------------------------- C17
\* The step is a request of worker w to a protected endpoint with token a.
IsProtected(w, a) ==
    \/ LogoutAllAuth(w, a)
    \/ Me(w, a)
    \/ DeleteAccountAuth(w, a)
    \/ \E p \in Passwords, q \in Passwords : ChangePasswordAuth(w, a, p, q)

C17_State ==
    \A a \in access_tokens, x \in users :
        (x.username = a.sub /\ x.is_active /\ ~(a.exp < now)) =>
            /\ get_current_user(a, access_tokens, users, now) = x
            /\ AuthStatus(x) = 0

C17_Step ==
    \A w \in Workers :
      (Free(w) /\ served' = served + 1
          /\ (\/ resp'.op \in {"logout_all", "me", "change_password",
                                 "delete_account"}
              \/ req'[w].op \in {"logout_all", "change_password",
                                  "delete_account"})) =>
        \A a \in access_tokens, x \in users :
            (IsProtected(w, a) /\ x.username = a.sub /\ x.is_active
                 /\ ~(a.exp < now)) =>
                \* the request runs as x: it is not turned away by the
                \* dependency, whatever was revoked before
                /\ resp'.status \notin {401, 403}
                /\ resp'.detail # "Inactive user"
                /\ resp'.uid = x.id \/ req'[w].uid = x.id

\* C17: access tokens are stateless and no operation revokes them.  Whatever
\* logouts, logout-alls and password changes user U has made, an unexpired
\* access token issued to U is accepted by the protected endpoints as U as
\* long as U's row exists and is active.
C17_AccessTokensNotRevoked == []C17_State /\ [][C17_Step]_vars

\* /auth/me answered 200 for a user that changed the password and whose
\* refresh token was revoked, with an access token issued before that.
C17_Witness ==
    /\ resp.op = "me" /\ resp.status = 200
    /\ \E x \in users, a \in access_tokens :
           /\ x.id = resp.uid /\ a.sub = x.username
           /\ \E p \in Passwords \ RegisterPasswords :
                  verify_password(p, x.hashed_password)
           /\ \E r \in refresh_tokens :
                  r.user_id = x.id /\ r.is_revoked /\ a.iat <= r.revoked_at

\* ------------------------------------------------------------------- C18
\* C18: every request that acquired a store session releases it at request
\* end on every exit path (success, HTTPException, unhandled store error): a
\* worker holds a session exactly while its request is in progress, and a step
\* that finishes a request leaves that worker without a session.
C18_State == \A w \in Workers : Free(w) <=> w \notin open_sessions

C18_Step ==
    \A w \in Workers :
        (resp' # Blank /\ req'[w].pc = "done"
             /\ (~Free(w) \/ served' = served + 1)) => w \notin open_sessions'

C18_SessionReleased == []C18_State /\ [][C18_Step]_vars

\* A request ended in the unhandled store error (500) and no session is open.
C18_Witness ==
    /\ resp.status = 500
    /\ \A w \in Workers : Free(w)
    /\ open_sessions = {}

\* ------------------------------------------------------------------- C19
\* A finished call of verify_password.
VerifyDone == call.fn = "verify_password" /\ call.done

\* verify_password(P', get_password_hash(P)) is true exactly when P' = P.
C19_RoundTrip ==
    VerifyDone =>
        \A p \in PlainPasswords, salt \in Salts :
            call.hashed = get_password_hash(p, salt) =>
                (call.out = "True" <=> call.plain = p)

\* verify_password answers false, without raising, on a malformed hash.
C19_NeverRaises ==
    VerifyDone =>
        /\ call.out # "raises"
        /\ call.hashed \in MalformedHashes => call.out = "False"

\* C19: for all passwords P, verify_password(P, get_password_hash(P)) is true
\* and verify_password(P', get_password_hash(P)) is false for every P' # P;
\* verify_password never raises on a malformed hash string but returns false.
C19_VerifyPassword == C19_RoundTrip /\ C19_NeverRaises

\* ------------------------------------------------------------------- C20
\* A finished call of create_access_token.
CreateDone == call.fn = "create_access_token" /\ call.done

\* exp = issuance time + ttl for every supplied ttl, 0 included; the
\* configured default only when ttl is omitted.
C20_Expiry ==
    CreateDone =>
        call.out.exp = call.t + (IF call.expires_delta = None
                                 THEN ACCESS_TOKEN_EXPIRE_MINUTES
                                 ELSE call.expires_delta)

\* type = access and the computed iat, whatever exp, iat or type the caller
\* put in the claims; the caller's other claims are carried.
C20_Overrides ==
    CreateDone =>
        /\ call.out.type = "access"
        /\ call.out.iat = call.t
        /\ call.out.exp \in {call.t + ACCESS_TOKEN_EXPIRE_MINUTES,
                               call.t + call.expires_delta}
        /\ \A k \in DOMAIN call.data \ {"exp", "iat", "type"} :
               call.out[k] = call.data[k]

\* The call leaves the caller's dictionary as it was.
C20_DataKept == CallCreateAccessToken => call'.data = call.data

\* C20: create_access_token(claims, ttl) sets exp to issuance time + ttl
\* minutes for every supplied ttl, ttl = 0 included, and uses the configured
\* default only when ttl is omitted; the token always carries type = access
\* and the computed exp and iat, overriding the caller's exp, iat and type,
\* and the caller's claims dictionary is not modified.
C20_CreateAccessToken ==
    /\ [](C20_Expiry /\ C20_Overrides)
    /\ [][C20_DataKept]_vars

\* ------------------------------------------------------------------- C21
\* C21: an access token only ever authenticates the account it was issued
\* for: get_current_user given an unexpired token issued to user id A never
\* returns a user row with a different id, in particular not a new account
\* registered under the deleted account's username.
C21_TokenAuthenticatesOwner ==
    \A h \in issued :
        LET current_user == get_current_user(h[1], access_tokens, users, now)
        IN current_user # NoneObj => current_user.id = h[2]

\* ------------------------------------------------------------------- C22
\* A change-password of user uid has committed the new hash and has not yet
\* ended.
Changing(uid) ==
    \E w \in Workers :
        /\ req[w].op = "change_password" /\ req[w].uid = uid
        /\ req[w].pc = "change_password_revoke"

\* Refresh tokens of user x that verify now and came from a login with a
\* password that is not x's password any more.
OldPasswordTokens(x) ==
    {r \in refresh_tokens :
        /\ r.user_id = x.id
        /\ verify_refresh_token(r.token, refresh_tokens, now) = x.id
        /\ \E h \in authenticated :
               h[1] = r.token /\ ~verify_password(h[2], x.hashed_password)}

\* C22: under any interleaving of a change-password of user U with concurrent
\* logins, once change-password has returned there is no valid refresh token
\* of U that was obtained with the old password: the new hash and the
\* revocation of U's tokens take effect together.
C22_NoOldPasswordToken ==
    \A x \in users : ~Changing(x.id) => OldPasswordTokens(x) = {}

\* ------------------------------------------------------------------- C23
\* C23: every user can log in with their own credentials: in every reachable
\* store, for every user U, authenticate_user(identifier, U's password)
\* returns U when identifier is U's email or U's username, also when the same
\* string is another account's username or email.
C23_EveryUserCanLogIn ==
    \A x \in users, p \in Passwords :
        verify_password(p, x.hashed_password) =>
            \A identifier \in {x.email, x.username} :
                authenticate_user(identifier, p, users) = {x}

\* ------------------------------------------------------------------- C24
C24_State ==
    /\ \A r \in refresh_tokens :
           /\ r.is_revoked <=> r.revoked_at # None
           /\ r.expires_at = r.created_at + REFRESH_TOKEN_EXPIRE_DAYS
           /\ \E x \in users : x.id = r.user_id
    /\ \A r \in refresh_tokens, q \in refresh_tokens :
           r.token = q.token => r = q

C24_Step ==
    \A r \in refresh_tokens, q \in refresh_tokens' :
        q.token = r.token =>
            /\ q.user_id = r.user_id
            /\ q.expires_at = r.expires_at
            /\ q.created_at = r.created_at

\* C24: in every reachable state each refresh-token row has is_revoked = true
\* exactly when revoked_at is set, and its token string, user_id and
\* expires_at are the values it was created with; token strings are unique
\* across the rows and every row's user_id refers to an existing user.
C24_RowInvariant == []C24_State /\ [][C24_Step]_vars

\* Two rows, one revoked and one not.
C24_Witness ==
    \E r \in refresh_tokens, q \in refresh_tokens :
        /\ r.token # q.token
        /\ r.is_revoked /\ r.revoked_at # None
        /\ ~q.is_revoked /\ q.revoked_at = None

\* ------------------------------------------------------------------- C25
\* The step writes nothing to the store.
StoreUnchanged ==
    /\ users' = users
    /\ refresh_tokens' = refresh_tokens
    /\ next_user_id' = next_user_id
    /\ next_token' = next_token

\* The step answers a request it accepted in the same step: the request is
\* this one step.
WholeRequest == served' = served + 1

C25_Step ==
    \* change-password: wrong current password, or turned away
    /\ (resp'.op = "change_password" /\ resp'.status \in {400, 401}) =>
           WholeRequest /\ StoreUnchanged
    \* logout-all, delete-account: missing, invalid or expired access token
    /\ (resp'.op \in {"logout_all", "delete_account"} /\ resp'.status = 401) =>
           WholeRequest /\ StoreUnchanged
    \* a failed login, a failed refresh
    /\ (resp'.op \in {"login_json", "login_oauth2", "refresh"}
            /\ resp'.status # 200) => StoreUnchanged
    \* and the steps of a login or refresh before its answer wrote nothing
    /\ \A w \in Workers :
           (req'[w] # req[w] /\ req'[w].pc \in {"login_issue", "refresh_user"})
               => StoreUnchanged

\* C25: a rejected request leaves the store unchanged: change-password with a
\* wrong current password (400) changes neither the hash nor a refresh token;
\* logout-all, change-password and delete-account with a missing, invalid or
\* expired access token (401) revoke no token and delete no user; a failed
\* login or refresh creates no row.
C25_RejectedLeavesStore == [][C25_Step]_vars

\* change-password answered 400 for a wrong current password while the user
\* holds a refresh token that still verifies.
C25_Witness ==
    /\ resp.op = "change_password" /\ resp.status = 400
    /\ resp.detail = "Current password is incorrect"
    /\ \E r \in refresh_tokens :
           /\ r.user_id = resp.uid
           /\ verify_refresh_token(r.token, refresh_tokens, now) = resp.uid
====
